---- MODULE Spec2Model ----
(***************************************************************************)
(* GeoJSONWorkerSource (src/src/source/geojson_worker_source.js): the      *)
(* registry of per-source spatial indexes, the tile-serving path, the      *)
(* point-list planner getPointListData and the constructive tour heuristic *)
(* TravellingSalesmanApproximation.                                        *)
(*                                                                         *)
(* JavaScript values are modelled as records tagged by `type`.  Numbers of *)
(* the tour heuristic are fixed-point integers in units of 1/Scale, with   *)
(* NaN as a separate value on which every comparison is false.             *)
(***************************************************************************)
EXTENDS Integers, Sequences, FiniteSets, TLC

\* ------------------------------------------------------------------ bounds
\* number of tile uids a source is asked for
NumUids == 2
\* number of loadData calls issued in one behaviour
MaxCalls == 2
\* largest tile zoom requested (coord.z); params.maxZoom ranges over the same
MaxZoomLevel == 1

\* Every handler reads and writes only the entries of params.source.
Sources == {"a"}
Uids == 1..NumUids
Zooms == 0..MaxZoomLevel

\* ------------------------------------------------------- JavaScript values
\* params.maxCount when the optional field is absent
undefined == -1
\* `Infinity` of `params.maxCount || Infinity`: larger than every count
Infinity == 1000000

Null == [type |-> "null"]
EmptyObject == [k \in {} |-> 0]
Error(msg) == [type |-> "error", message |-> msg]
InvalidGeoJSON == Error("Input data is not a valid GeoJSON object.")
AjaxError == Error("ajax")
BuildError == Error("index build threw")

\* !v
Falsy(v) == v.type \in {"null", "false", "zero", "emptystring", "undefined"}
\* typeof v === 'object'
TypeofObject(v) == v.type \in {"null", "object"}

\* A leaf feature as getClusters/getLeaves return it.
Leaf(id, xy) == [cluster |-> FALSE, i |-> id, cluster_id |-> undefined, coordinates |-> xy, leaves |-> <<>>]
\* An aggregate cluster as getClusters returns it, with the leaves the index
\* holds for it.
Aggregate(cid, ls) == [cluster |-> TRUE, i |-> undefined, cluster_id |-> cid, coordinates |-> ls[1].coordinates, leaves |-> ls]

\* A parsed GeoJSON document: what an index built from it answers to
\* getClusters (for the query's bounds and zoom) and at which zooms getTile
\* finds features; `rewinds` and `builds` say whether geojson-rewind and the
\* index constructor accept it.
Document(cl, tz, rw, bd) == [type |-> "object", clusters |-> cl, tileZooms |-> tz, rewinds |-> rw, builds |-> bd]
Scalar(t) == [type |-> t]

EmptyDoc == Document(<<>>, {}, TRUE, TRUE)
PlacesDoc == Document(<<Leaf(1, <<2, 2>>), Aggregate(10, <<Leaf(2, <<0, 0>>), Leaf(3, <<0, 1>>)>>)>>, Zooms, TRUE, TRUE)
\* an object geojson-rewind throws on (a FeatureCollection without features)
UnrewindableDoc == Document(<<>>, {}, FALSE, TRUE)
\* an object the index constructor throws on
UnbuildableDoc == Document(<<>>, {}, TRUE, FALSE)

\* Every value a loader can deliver as `data`.
Payloads == {EmptyDoc, PlacesDoc, UnrewindableDoc, UnbuildableDoc, Null, Scalar("false"), Scalar("zero"), Scalar("emptystring"), Scalar("number"), Scalar("string")}

\* params.data: absent, a non-string, or a text
NoData == [type |-> "undefined"]
NonStringData == [type |-> "object"]
Text(t) == [type |-> "string", text |-> t]
DataTexts == {"null", "false", "0", "\"\"", "5", "\"x\"", "{\"type\":\"FeatureCollection\",\"features\":[]}", "places.geojson", "{\"type\":\"FeatureCollection\"}", "{\"features\":7}", "{bad"}
DataValues == {NoData, NonStringData} \cup {Text(t) : t \in DataTexts}

\* JSON.parse(text): [threw, value]
JSONParse(text) ==
    CASE text = "null" -> [threw |-> FALSE, value |-> Null]
      [] text = "false" -> [threw |-> FALSE, value |-> Scalar("false")]
      [] text = "0" -> [threw |-> FALSE, value |-> Scalar("zero")]
      [] text = "\"\"" -> [threw |-> FALSE, value |-> Scalar("emptystring")]
      [] text = "5" -> [threw |-> FALSE, value |-> Scalar("number")]
      [] text = "\"x\"" -> [threw |-> FALSE, value |-> Scalar("string")]
      [] text = "{\"type\":\"FeatureCollection\",\"features\":[]}" -> [threw |-> FALSE, value |-> EmptyDoc]
      [] text = "places.geojson" -> [threw |-> FALSE, value |-> PlacesDoc]
      [] text = "{\"type\":\"FeatureCollection\"}" -> [threw |-> FALSE, value |-> UnrewindableDoc]
      [] text = "{\"features\":7}" -> [threw |-> FALSE, value |-> UnbuildableDoc]
      [] OTHER -> [threw |-> TRUE, value |-> Null]

\* ------------------------------------------------------------------- state
VARIABLES
    geoJSONIndexes,   \* this._geoJSONIndexes: source -> index or NoIndex
    loaded,           \* this.loaded: source -> set of uids marked loaded
    inflight,         \* ajax.getJSON requests whose callback has not run
    nextCall,         \* number of the next loadData call
    out,              \* what the last handler did with its callback
    removed,          \* history: sources removed and not bound since
    tour              \* a TravellingSalesmanApproximation and the position
                      \* of its solve()

vars == <<geoJSONIndexes, loaded, inflight, nextCall, out, removed, tour>>
workerVars == <<geoJSONIndexes, loaded, inflight, nextCall, out, removed>>

\* _geoJSONIndexes[source] === undefined
NoIndex == [kind |-> "undefined"]
\* supercluster(...).load(features) / geojsonvt(data, ...)
BuildIndex(cluster, data, call) == [kind |-> IF cluster THEN "supercluster" ELSE "geojsonvt", doc |-> data, call |-> call]

\* `out` after a step: the handler `op` ran for `source`; it invoked its
\* callback (`called`) with (`err`, `value`) or let an exception escape
\* (`threw`); `path` is the branch reloadTile took, `params` what the claims
\* need of the request.
Outcome(op, s, called, threw, err, value) == [op |-> op, source |-> s, called |-> called, threw |-> threw, err |-> err, value |-> value, path |-> "", params |-> Null]
NoCallback == Outcome("none", "", FALSE, FALSE, Null, Null)

\* no TravellingSalesmanApproximation exists
NoTour == [pc |-> "none"]

Init ==
    /\ geoJSONIndexes = [s \in Sources |-> NoIndex]
    /\ loaded = [s \in Sources |-> {}]
    /\ inflight = {}
    /\ nextCall = 1
    /\ out = NoCallback
    /\ removed = {}
    /\ tour = NoTour

\* ----------------------------------------- TravellingSalesmanApproximation
\* resolution of the fixed-point numbers: one unit is 1/Scale
Scale == 1000
\* 0/0, the value normalizePoints computes when an extent is zero
NaN == -999999999

\* a < b on numbers: false when either is NaN
Lt(a, b) == a # NaN /\ b # NaN /\ a < b
Plus(a, b) == IF a = NaN \/ b = NaN THEN NaN ELSE a + b
Minus(a, b) == IF a = NaN \/ b = NaN THEN NaN ELSE a - b

RECURSIVE SqrtSearch(_, _, _)
\* the r in lo..hi-1 with r*r <= v < (r+1)*(r+1)
SqrtSearch(v, lo, hi) ==
    IF hi - lo <= 1 THEN lo
    ELSE LET mid == (lo + hi) \div 2
         IN IF mid * mid <= v THEN SqrtSearch(v, mid, hi) ELSE SqrtSearch(v, lo, mid)

\* Math.sqrt of the integer v, in units of 1/Scale, rounded down
Sqrt(v) == LET w == v * Scale * Scale IN SqrtSearch(w, 0, IF w < 46340 THEN w + 1 ELSE 46340)

SeqMin(f, D) == CHOOSE m \in {f[k] : k \in D} : \A k \in D : m <= f[k]
SeqMax(f, D) == CHOOSE m \in {f[k] : k \in D} : \A k \in D : m >= f[k]

\* this.width / this.height after normalizePoints: max - min of the
\* coordinate `c` (1 for x, 2 for y); null - null = 0 for no points
Extent(pts, c) ==
    IF pts = <<>> THEN 0
    ELSE SeqMax([k \in DOMAIN pts |-> pts[k][c]], DOMAIN pts) - SeqMin([k \in DOMAIN pts |-> pts[k][c]], DOMAIN pts)

\* (v - min) * extent / (max - min)
NormalizeCoordinate(v, min, extent) == IF extent = 0 THEN NaN ELSE ((v - min) * extent) \div extent

\* this.points after normalizePoints
NormalizePoints(pts) ==
    [k \in DOMAIN pts |->
        << NormalizeCoordinate(pts[k][1], SeqMin([m \in DOMAIN pts |-> pts[m][1]], DOMAIN pts), Extent(pts, 1)),
           NormalizeCoordinate(pts[k][2], SeqMin([m \in DOMAIN pts |-> pts[m][2]], DOMAIN pts), Extent(pts, 2)) >>]

\* one entry of the distance matrix
PointDistance(p, q) ==
    IF p[1] = NaN \/ p[2] = NaN \/ q[1] = NaN \/ q[2] = NaN THEN NaN
    ELSE Sqrt((p[1] - q[1]) * (p[1] - q[1]) + (p[2] - q[2]) * (p[2] - q[2]))

\* this.distanceMatrix, indexed from 1: entry [a+1][b+1] is the code's [a][b]
GenerateDistanceMatrix(pts) ==
    LET np == NormalizePoints(pts)
    IN [a \in DOMAIN pts |-> [b \in DOMAIN pts |-> PointDistance(np[a], np[b])]]

\* this.height * this.height + this.width * this.width + 1
InitialBest(pts) == (Extent(pts, 2) * Extent(pts, 2) + Extent(pts, 1) * Extent(pts, 1) + 1) * Scale

\* distanceMatrix[a][b] for indices a, b counted from 0
Dist(dm, a, b) == dm[a + 1][b + 1]

\* detour(before, insert, after)
Detour(dm, before, insert, after) == Minus(Plus(Dist(dm, before, insert), Dist(dm, insert, after)), Dist(dm, before, after))

\* new TravellingSalesmanApproximation(points, center): the fields solve()
\* reads.  this.center is computed by the constructor and read nowhere.
NewTravellingSalesmanApproximation(pts) ==
    [length |-> Len(pts),
     distanceMatrix |-> GenerateDistanceMatrix(pts),
     initialBest |-> InitialBest(pts),
     randomPath |-> [k \in DOMAIN pts |-> k - 1]]

\* arr[k] of a JavaScript array, k counted from 0: undefined out of range
At(arr, k) == IF k + 1 \in DOMAIN arr THEN arr[k + 1] ELSE undefined

RECURSIVE MinimalDistance(_, _, _, _, _)
\* lines 458-466: the smallest distanceMatrix[path[k]][pt] over the path
\* elements from position k on, starting from acc
MinimalDistance(ts, path, pt, k, acc) ==
    IF k >= Len(path) THEN acc
    ELSE LET currentDistance == Dist(ts.distanceMatrix, At(path, k), pt)
         IN MinimalDistance(ts, path, pt, k + 1, IF Lt(currentDistance, acc) THEN currentDistance ELSE acc)

RECURSIVE SelectFarthestKeepsLastTie(_, _, _, _, _, _)
\* the scan with >= for >: of several farthest points the last one wins
SelectFarthestKeepsLastTie(ts, path, remaining, j, maximalDistanceToTour, indexInRemaining) ==
    IF j >= ts.length THEN indexInRemaining
    ELSE LET minimalDistance == MinimalDistance(ts, path, At(remaining, j), 0, ts.initialBest)
         IN IF ~Lt(minimalDistance, maximalDistanceToTour)
            THEN SelectFarthestKeepsLastTie(ts, path, remaining, j + 1, minimalDistance, j)
            ELSE SelectFarthestKeepsLastTie(ts, path, remaining, j + 1, maximalDistanceToTour, indexInRemaining)

RECURSIVE SelectFarthest(_, _, _, _, _, _)
\* lines 456-475: indexInRemaining after the scan of remaining[j..n-1]
SelectFarthest(ts, path, remaining, j, maximalDistanceToTour, indexInRemaining) ==
    IF j >= ts.length THEN indexInRemaining
    ELSE LET minimalDistance == MinimalDistance(ts, path, At(remaining, j), 0, ts.initialBest)
         IN IF Lt(maximalDistanceToTour, minimalDistance)
            THEN SelectFarthest(ts, path, remaining, j + 1, minimalDistance, j)
            ELSE SelectFarthest(ts, path, remaining, j + 1, maximalDistanceToTour, indexInRemaining)

\* swap without the temporary: the element at i is overwritten and lost
SwapWithoutTemp(arr, a, b) == [arr EXCEPT ![a + 1] = arr[b + 1]]

\* swap(path, i, j)
Swap(arr, a, b) == [arr EXCEPT ![a + 1] = arr[b + 1], ![b + 1] = arr[a + 1]]

RECURSIVE SmallestDetour(_, _, _, _, _)
\* lines 479-486: [smallestDetour, indexInPath] after the scan of the
\* adjacent pairs (path[k], path[k+1]) from k on
SmallestDetour(ts, path, pt, k, best) ==
    IF k >= Len(path) - 1 THEN best
    ELSE LET currentDetour == Detour(ts.distanceMatrix, At(path, k), pt, At(path, k + 1))
         IN SmallestDetour(ts, path, pt, k + 1,
                IF Lt(currentDetour, best.smallestDetour)
                THEN [smallestDetour |-> currentDetour, indexInPath |-> k]
                ELSE best)

\* path.splice(at, 0, pt)
Splice(path, at, pt) == SubSeq(path, 1, at) \o <<pt>> \o SubSeq(path, at + 1, Len(path))

\* the position of the cheapest pair itself: the point goes before the
\* pair's first element
InsertionIndexBeforePair(ts, path, pt) ==
    LET best == SmallestDetour(ts, path, pt, 0, [smallestDetour |-> ts.initialBest, indexInPath |-> 0])
    IN IF Lt(Detour(ts.distanceMatrix, At(path, Len(path) - 1), pt, At(path, 0)), best.smallestDetour)
       THEN Len(path)
       ELSE best.indexInPath

\* the position without the test of the closing edge (line 487)
InsertionIndexIgnoresClosingEdge(ts, path, pt) ==
    SmallestDetour(ts, path, pt, 0, [smallestDetour |-> ts.initialBest, indexInPath |-> 0]).indexInPath + 1

\* lines 487-491: the position the selected point is spliced in at
InsertionIndex(ts, path, pt) ==
    LET best == SmallestDetour(ts, path, pt, 0, [smallestDetour |-> ts.initialBest, indexInPath |-> 0])
    IN IF Lt(Detour(ts.distanceMatrix, At(path, Len(path) - 1), pt, At(path, 0)), best.smallestDetour)
       THEN Len(path)
       ELSE best.indexInPath + 1

\* One pass of the loop of solve() (lines 449-492) from the state st =
\* [i, path, remaining].
SolveIteration(ts, st) ==
    LET indexInRemaining == SelectFarthest(ts, st.path, st.remaining, st.i, 0 - Scale, 0)
        remaining == Swap(st.remaining, indexInRemaining, st.i)
        pt == At(remaining, st.i)
    IN [i |-> st.i + 1, remaining |-> remaining, path |-> Splice(st.path, InsertionIndex(ts, st.path, pt), pt)]

\* lines 444-447: the state before the loop
SolveStart(ts) == [i |-> 1, remaining |-> ts.randomPath, path |-> <<At(ts.randomPath, 0)>>]

RECURSIVE SolveLoop(_, _)
SolveLoop(ts, st) == IF st.i >= ts.length THEN st ELSE SolveLoop(ts, SolveIteration(ts, st))

\* solve()[0]
Solve(pts) == LET ts == NewTravellingSalesmanApproximation(pts) IN SolveLoop(ts, SolveStart(ts)).path

\* -------------------------------------------------------- getPointListData
\* supercluster.getLeaves(clusterId, zoom, limit): at most `limit` leaves of
\* the cluster, in the index's order
GetLeaves(cluster, limit) == SubSeq(cluster.leaves, 1, IF limit < Len(cluster.leaves) THEN limit ELSE Len(cluster.leaves))

\* getBboxArrCenter(bbox); the bounds of the model have even sums
GetBboxArrCenter(bbox) == <<(bbox[1] + bbox[3]) \div 2, (bbox[2] + bbox[4]) \div 2>>

\* the distance along x alone
CalculateDistarnceXOnly(a, b) == (a[1] - b[1]) * (a[1] - b[1])

\* calculateDistarnce(a, b)
CalculateDistarnce(a, b) == (a[1] - b[1]) * (a[1] - b[1]) + (a[2] - b[2]) * (a[2] - b[2])

\* lines 174-187: the features one entry of getClusters stands for
ClusterFeatures(cluster, maxCount) == IF cluster.cluster THEN GetLeaves(cluster, maxCount) ELSE <<cluster>>

\* the record keyed by its first member instead of the group: an aggregate's
\* members are looked up under a leaf id
AllClusterDataKeysFirstLeaf(cluster, maxCount) ==
    LET clusterFeatures == ClusterFeatures(cluster, maxCount)
    IN [clusterId |-> clusterFeatures[1].i,
        coordinates |-> clusterFeatures[1].coordinates,
        apartmentIds |-> [k \in DOMAIN clusterFeatures |-> clusterFeatures[k].i]]

\* lines 174-193: clusterId and the allClusterData record of one entry
AllClusterData(cluster, maxCount) ==
    LET clusterFeatures == ClusterFeatures(cluster, maxCount)
    IN [clusterId |-> IF cluster.cluster THEN cluster.cluster_id ELSE cluster.i,
        coordinates |-> clusterFeatures[1].coordinates,
        apartmentIds |-> [k \in DOMAIN clusterFeatures |-> clusterFeatures[k].i]]

RECURSIVE CollectClusters(_, _, _, _, _)
\* lines 173-203: allClustersData after the loop over clusters[k..], from
\* the groups `acc` and the count `apartmentsCnt` collected so far
CollectClusters(clusters, k, maxCount, acc, apartmentsCnt) ==
    IF k > Len(clusters) THEN acc
    ELSE LET allClusterData == AllClusterData(clusters[k], maxCount)
             cnt == apartmentsCnt + Len(allClusterData.apartmentIds)
         IN IF cnt >= maxCount
            THEN Append(acc, allClusterData)
            ELSE CollectClusters(clusters, k + 1, maxCount, Append(acc, allClusterData), cnt)

\* distanceSort(allClustersData, center): Array.prototype.sort leaves the
\* order of equal-distance groups to the engine, so every arrangement with
\* non-decreasing distance is a possible result
DistanceSort(allClustersData, center) ==
    LET n == Len(allClustersData)
        withDistance == [k \in 1..n |-> [clusterId |-> allClustersData[k].clusterId,
                                         coordinates |-> allClustersData[k].coordinates,
                                         apartmentIds |-> allClustersData[k].apartmentIds,
                                         distance |-> CalculateDistarnce(center, allClustersData[k].coordinates)]]
        orders == {f \in [1..n -> 1..n] : (\A a, b \in 1..n : a # b => f[a] # f[b])
                                          /\ (\A a \in 1..n : a < n => withDistance[f[a]].distance <= withDistance[f[a + 1]].distance)}
    IN {[k \in 1..n |-> withDistance[f[k]]] : f \in orders}

\* lines 207-225: the positions of allClustersData in the resolved order,
\* counted from 0
ResolvedOrder(allClustersData, travellingSalesmanApprox) ==
    IF travellingSalesmanApprox
    THEN Solve([k \in DOMAIN allClustersData |-> allClustersData[k].coordinates])
    ELSE [k \in DOMAIN allClustersData |-> k - 1]

\* line 218-221: allClustersDataSorted holds an undefined element when the
\* tour is shorter than the array or names no element of it
HasUndefinedElement(allClustersData, paths) ==
    \/ Len(paths) < Len(allClustersData)
    \/ \E k \in DOMAIN paths : paths[k] + 1 \notin DOMAIN allClustersData

RECURSIVE FlattenKeysLastMember(_, _, _, _)
\* the lookup entry written after the inner loop: only the last member of
\* each group gets a key
FlattenKeysLastMember(allClustersData, paths, k, acc) ==
    IF k > Len(paths) THEN acc
    ELSE LET allClusterData == allClustersData[paths[k] + 1]
             ids == allClusterData.apartmentIds
             idSet == {ids[Len(ids)]}
         IN FlattenKeysLastMember(allClustersData, paths, k + 1,
                [apartmentIds |-> acc.apartmentIds \o ids,
                 clusterLookup |-> [id \in DOMAIN acc.clusterLookup \cup idSet |->
                                       IF id \in idSet THEN allClusterData.clusterId ELSE acc.clusterLookup[id]]])

RECURSIVE Flatten(_, _, _, _)
\* lines 227-232: [apartmentIds, clusterLookup] after the groups from
\* position k of the resolved order on are appended to acc
Flatten(allClustersData, paths, k, acc) ==
    IF k > Len(paths) THEN acc
    ELSE LET allClusterData == allClustersData[paths[k] + 1]
             ids == allClusterData.apartmentIds
             idSet == {ids[m] : m \in DOMAIN ids}
         IN Flatten(allClustersData, paths, k + 1,
                [apartmentIds |-> acc.apartmentIds \o ids,
                 clusterLookup |-> [id \in DOMAIN acc.clusterLookup \cup idSet |->
                                       IF id \in idSet THEN allClusterData.clusterId ELSE acc.clusterLookup[id]]])

\* the result object of lines 143-146 and 234-235
Result(apartmentIds, clusterLookup) == [type |-> "object", apartmentIds |-> apartmentIds, clusterLookup |-> clusterLookup]
\* JSON.stringify of the initial result
StringifiedEmptyResult == [type |-> "string", text |-> "{\"apartmentIds\":[],\"clusterLookup\":{}}"]

\* lines 205-236 for one outcome of the sort: [threw, value]
PlanSorted(allClustersData, travellingSalesmanApprox) ==
    LET paths == ResolvedOrder(allClustersData, travellingSalesmanApprox)
    IN IF HasUndefinedElement(allClustersData, paths)
       THEN [threw |-> TRUE, value |-> Null]
       ELSE LET flat == Flatten(allClustersData, paths, 1, [apartmentIds |-> <<>>, clusterLookup |-> EmptyObject])
            IN [threw |-> FALSE, value |-> Result(flat.apartmentIds, flat.clusterLookup)]

\* getPointListData(params, callback) against the index bound to params's
\* source: the set of [threw, value] it can end with (callback(null, value)
\* when it did not throw)
GetPointListData(index, params) ==
    IF index = NoIndex THEN {[threw |-> FALSE, value |-> Result(<<>>, EmptyObject)]}
    ELSE IF index.kind # "supercluster" THEN {[threw |-> FALSE, value |-> StringifiedEmptyResult]}
    ELSE LET maxCount == IF params.maxCount = undefined \/ params.maxCount = 0 THEN Infinity ELSE params.maxCount
             center == IF params.center = <<>> THEN GetBboxArrCenter(params.bounds) ELSE params.center
             clusters == index.doc.clusters
             allClustersData == CollectClusters(clusters, 1, maxCount, <<>>, 0)
         IN {PlanSorted(sorted, params.travellingSalesmanApprox) : sorted \in DistanceSort(allClustersData, center)}

\* ------------------------------------------------------------------ ingest
\* loadData's callback with the markers cleared before the index is built:
\* a build that throws has already dropped them
LoadDataCallbackClearsBeforeBuild(params, call, err, data) ==
    LET same(called, threw, e) == [indexes |-> geoJSONIndexes, loaded |-> loaded, installed |-> FALSE, called |-> called, threw |-> threw, err |-> e, data |-> data]
    IN IF err # Null \/ Falsy(data) THEN same(TRUE, FALSE, err)
       ELSE IF ~TypeofObject(data) THEN same(TRUE, FALSE, InvalidGeoJSON)
       ELSE IF ~data.rewinds THEN same(FALSE, TRUE, Null)
       ELSE IF ~data.builds THEN [same(TRUE, FALSE, BuildError) EXCEPT !.loaded = [loaded EXCEPT ![params.source] = {}]]
       ELSE [indexes |-> [geoJSONIndexes EXCEPT ![params.source] = BuildIndex(params.cluster, data, call)],
             loaded |-> [loaded EXCEPT ![params.source] = {}],
             installed |-> TRUE, called |-> TRUE, threw |-> FALSE, err |-> Null, data |-> data]

\* The callback loadData hands to loadGeoJSON (lines 120-139), run with
\* (err, data) for the call `call` of loadData(params): the registry and the
\* markers after it, and whether it called back, with what, or threw.
LoadDataCallback(params, call, err, data) ==
    LET same(called, threw, e) == [indexes |-> geoJSONIndexes, loaded |-> loaded, installed |-> FALSE, called |-> called, threw |-> threw, err |-> e, data |-> data]
    IN IF err # Null \/ Falsy(data) THEN same(TRUE, FALSE, err)
       ELSE IF ~TypeofObject(data) THEN same(TRUE, FALSE, InvalidGeoJSON)
       ELSE IF ~data.rewinds THEN same(FALSE, TRUE, Null)
       ELSE IF ~data.builds THEN same(TRUE, FALSE, BuildError)
       ELSE [indexes |-> [geoJSONIndexes EXCEPT ![params.source] = BuildIndex(params.cluster, data, call)],
             loaded |-> [loaded EXCEPT ![params.source] = {}],
             installed |-> TRUE, called |-> TRUE, threw |-> FALSE, err |-> Null, data |-> data]

\* loadGeoJSON taking params.data as the document when it is no string
LoadGeoJSONInlineTakesLiteral(params, call) ==
    IF params.data.type = "string"
    THEN LET parsed == JSONParse(params.data.text)
             first == LoadDataCallback(params, call, Null, parsed.value)
         IN IF parsed.threw \/ first.threw
            THEN LoadDataCallback(params, call, InvalidGeoJSON, Null)
            ELSE first
    ELSE LoadDataCallback(params, call, Null, params.data)

\* loadGeoJSON(params, callback) when params.request is absent (lines
\* 303-311), with loadData's callback as `callback`.  An exception that
\* escapes the callback inside the try of line 304 is caught there and the
\* callback runs a second time, with the error.
LoadGeoJSONInline(params, call) ==
    IF params.data.type = "string"
    THEN LET parsed == JSONParse(params.data.text)
             first == LoadDataCallback(params, call, Null, parsed.value)
         IN IF parsed.threw \/ first.threw
            THEN LoadDataCallback(params, call, InvalidGeoJSON, Null)
            ELSE first
    ELSE LoadDataCallback(params, call, InvalidGeoJSON, Null)

\* what `out` keeps of a loadData call: its number, its params and, once
\* the loader answered, the data it delivered
LoadDataParams(params, call, data) == [call |-> call, request |-> params.request, data |-> params.data, cluster |-> params.cluster, payload |-> data]

\* The registry, markers, histories and `out` after loadData's callback ran
\* with result r for the call `call` of loadData(params).
Deliver(params, call, r) ==
    /\ geoJSONIndexes' = r.indexes
    /\ loaded' = r.loaded
    /\ removed' = IF r.installed THEN removed \ {params.source} ELSE removed
    /\ out' = [Outcome("loadData", params.source, r.called, r.threw, r.err, Null) EXCEPT !.params = LoadDataParams(params, call, r.data)]

\* loadData(params, callback) with params.request: ajax.getJSON is started
\* and nothing else happens until it answers.
LoadDataRequest(s, cluster, data) ==
    /\ nextCall <= MaxCalls
    /\ nextCall' = nextCall + 1
    /\ inflight' = inflight \cup {[call |-> nextCall, source |-> s, cluster |-> cluster, request |-> TRUE, data |-> data]}
    /\ out' = [Outcome("loadData", s, FALSE, FALSE, Null, Null) EXCEPT !.params = LoadDataParams([request |-> TRUE, data |-> data, cluster |-> cluster], nextCall, Null)]
    /\ UNCHANGED <<geoJSONIndexes, loaded, removed, tour>>

\* loadData(params, callback) without params.request
LoadDataInline(s, cluster, data) ==
    /\ nextCall <= MaxCalls
    /\ nextCall' = nextCall + 1
    /\ LET params == [source |-> s, cluster |-> cluster, request |-> FALSE, data |-> data]
       IN Deliver(params, nextCall, LoadGeoJSONInline(params, nextCall))
    /\ UNCHANGED <<inflight, tour>>

\* ajax.getJSON answers the request req with (err, data)
AjaxComplete(req, err, data) ==
    /\ req \in inflight
    /\ inflight' = inflight \ {req}
    /\ Deliver(req, req.call, LoadDataCallback(req, req.call, err, data))
    /\ UNCHANGED <<nextCall, tour>>

\* removeSource that calls back without deleting the entry
RemoveSourceKeepsIndex(s) ==
    /\ removed' = removed \cup {s}
    /\ out' = Outcome("removeSource", s, TRUE, FALSE, Null, Null)
    /\ UNCHANGED <<geoJSONIndexes, loaded, inflight, nextCall, tour>>

\* removeSource(params, callback)
RemoveSource(s) ==
    /\ geoJSONIndexes' = IF geoJSONIndexes[s] # NoIndex THEN [geoJSONIndexes EXCEPT ![s] = NoIndex] ELSE geoJSONIndexes
    /\ removed' = removed \cup {s}
    /\ out' = Outcome("removeSource", s, TRUE, FALSE, Null, Null)
    /\ UNCHANGED <<loaded, inflight, nextCall, tour>>

\* ------------------------------------------------------------------- tiles
\* index.getTile(z, x, y): the tile, or null where the document has nothing
GetTile(index, z) == IF z \in index.doc.tileZooms THEN [type |-> "tile", doc |-> index.doc, z |-> z] ELSE Null

\* loadGeoJSONTile(params, callback): the (err, value) it calls back with
LoadGeoJSONTile(index, z, maxZoom) ==
    IF index = NoIndex THEN [err |-> Null, value |-> Null]
    ELSE [err |-> Null, value |-> GetTile(index, IF z < maxZoom THEN z ELSE maxZoom)]

\* VectorTileWorkerSource.loadTile: loadVectorData is loadGeoJSONTile; a
\* tile that was fetched is marked loaded
LoadTileInto(op, path, s, uid, z, maxZoom) ==
    LET r == LoadGeoJSONTile(geoJSONIndexes[s], z, maxZoom)
    IN /\ loaded' = IF r.err = Null /\ r.value # Null THEN [loaded EXCEPT ![s] = @ \cup {uid}] ELSE loaded
       /\ out' = [Outcome(op, s, TRUE, FALSE, r.err, r.value) EXCEPT !.path = path]
       /\ UNCHANGED <<geoJSONIndexes, inflight, nextCall, removed, tour>>

LoadTile(s, uid, z, maxZoom) == LoadTileInto("loadTile", "loadTile", s, uid, z, maxZoom)

\* loaded && loaded[uid]
IsLoaded(s, uid) == uid \in loaded[s]

\* reloadTile(params, callback)
ReloadTile(s, uid, z, maxZoom) ==
    IF IsLoaded(s, uid)
    THEN /\ out' = [Outcome("reloadTile", s, TRUE, FALSE, Null, Null) EXCEPT !.path = "super.reloadTile"]
         /\ UNCHANGED <<geoJSONIndexes, loaded, inflight, nextCall, removed, tour>>
    ELSE LoadTileInto("reloadTile", "loadTile", s, uid, z, maxZoom)

\* ----------------------------------------------------------------- queries
\* getPointListData(params, callback) for the source s
Query(s, params) ==
    /\ \E r \in GetPointListData(geoJSONIndexes[s], params) :
          out' = [Outcome("getPointListData", s, ~r.threw, r.threw, Null, r.value) EXCEPT !.params = params]
    /\ UNCHANGED <<geoJSONIndexes, loaded, inflight, nextCall, removed, tour>>

\* the point-list requests of the worker specification
QueryParams == [maxCount : {undefined, 2}, center : {<<>>}, bounds : {<<0, 0, 2, 2>>}, travellingSalesmanApprox : BOOLEAN]

Next ==
    \/ \E s \in Sources, cluster \in BOOLEAN, data \in DataValues : LoadDataInline(s, cluster, data)
    \/ \E s \in Sources, cluster \in BOOLEAN, data \in {NoData, Text("places.geojson")} : LoadDataRequest(s, cluster, data)
    \/ \E req \in inflight : AjaxComplete(req, AjaxError, Null)
    \/ \E req \in inflight, data \in Payloads : AjaxComplete(req, Null, data)
    \/ \E s \in Sources : RemoveSource(s)
    \/ \E s \in Sources, uid \in Uids, z \in Zooms, maxZoom \in Zooms : LoadTile(s, uid, z, maxZoom)
    \/ \E s \in Sources, uid \in Uids, z \in Zooms, maxZoom \in Zooms : ReloadTile(s, uid, z, maxZoom)
    \/ \E s \in Sources, params \in QueryParams : Query(s, params)

Spec == Init /\ [][Next]_vars

\* ------------------------------------------------ the tour, step by step
\* largest number of points handed to the tour
MaxPoints == 4
\* x ranges over 0..GridMax, y over two rows
GridMax == 2

Grid == (0..GridMax) \X {0, 1}
RECURSIVE SeqsUpTo(_, _)
\* the sequences over S of length at most n
SeqsUpTo(S, n) == IF n = 0 THEN {<<>>} ELSE LET shorter == SeqsUpTo(S, n - 1) IN shorter \cup {Append(q, x) : q \in {r \in shorter : Len(r) = n - 1}, x \in S}

\* new TravellingSalesmanApproximation(points, center) for any points
InitTour ==
    /\ geoJSONIndexes = [s \in Sources |-> NoIndex]
    /\ loaded = [s \in Sources |-> {}]
    /\ inflight = {}
    /\ nextCall = 1
    /\ out = NoCallback
    /\ removed = {}
    /\ \E pts \in SeqsUpTo(Grid, MaxPoints) :
          tour = [pc |-> "constructed", points |-> pts, ts |-> NewTravellingSalesmanApproximation(pts), st |-> [i |-> 0, remaining |-> <<>>, path |-> <<>>]]

\* solve() up to its loop (lines 444-447)
TourStart ==
    /\ tour.pc = "constructed"
    /\ tour' = [tour EXCEPT !.pc = "loop", !.st = SolveStart(tour.ts)]
    /\ UNCHANGED workerVars

\* one pass of the loop (lines 449-492)
TourIterate ==
    /\ tour.pc = "loop"
    /\ tour.st.i < tour.ts.length
    /\ tour' = [tour EXCEPT !.st = SolveIteration(tour.ts, tour.st)]
    /\ UNCHANGED workerVars

\* the loop ends and solve() returns [path] (lines 493-494)
TourReturn ==
    /\ tour.pc = "loop"
    /\ tour.st.i >= tour.ts.length
    /\ tour' = [tour EXCEPT !.pc = "returned"]
    /\ UNCHANGED workerVars

NextTour == TourStart \/ TourIterate \/ TourReturn

SpecTour == InitTour /\ [][NextTour]_vars

\* ------------------------------------------- the planner on cluster sources
\* largest number of entries getClusters returns
MaxClusters == 3
\* largest number of leaves of one aggregate cluster
MaxLeaves == 2
\* largest params.maxCount
MaxCount == 3

\* representative coordinates of the groups
PlanPoints == {<<1, 1>>, <<0, 1>>, <<2, 2>>}

RECURSIVE ClustersOf(_, _, _, _)
\* What getClusters returns for the groups shape[k..]: a group of one leaf
\* is a singleton, a larger one an aggregate; leaf ids count up from nextId
\* so that no two groups share a leaf.
ClustersOf(shape, k, nextId, acc) ==
    IF k > Len(shape) THEN acc
    ELSE LET g == shape[k]
             ls == [m \in 1..g.size |-> Leaf(nextId + m - 1, g.xy)]
         IN ClustersOf(shape, k + 1, nextId + g.size, Append(acc, IF g.size = 1 THEN ls[1] ELSE Aggregate(100 + k, ls)))

PlanDocuments == {Document(ClustersOf(shape, 1, 1, <<>>), {}, TRUE, TRUE) : shape \in SeqsUpTo([size : 1..MaxLeaves, xy : PlanPoints], MaxClusters)}

PlanParams == [maxCount : {undefined} \cup 0..MaxCount, center : {<<>>, <<0, 0>>}, bounds : {<<0, 0, 2, 2>>}, travellingSalesmanApprox : BOOLEAN]

\* the worker after a successful loadData of a cluster source
InitPlan ==
    /\ \E doc \in PlanDocuments : geoJSONIndexes = [s \in Sources |-> BuildIndex(TRUE, doc, 1)]
    /\ loaded = [s \in Sources |-> {}]
    /\ inflight = {}
    /\ nextCall = 2
    /\ out = NoCallback
    /\ removed = {}
    /\ tour = NoTour

\* A query leaves the worker as it found it, so the first query of a
\* behaviour already ranges over every (document, request) pair.
NextPlan == \E s \in Sources, params \in PlanParams : out = NoCallback /\ Query(s, params)

SpecPlan == InitPlan /\ [][NextPlan]_vars

\* --------------------------------------------- the order of the groups
\* What getClusters can return where the order of the result is decided:
\* up to MaxClusters groups, each a singleton or an aggregate of two leaves.
OrderDocuments == {Document(ClustersOf(shape, 1, 1, <<>>), {}, TRUE, TRUE) : shape \in SeqsUpTo([size : {1, 2}, xy : PlanPoints], MaxClusters)}

\* The requests: a center left out, at a corner of the bounds and at
\* another corner; the cap left out, below and at the size of an aggregate.
OrderParams == [maxCount : {undefined, 1, 2}, center : {<<>>, <<0, 0>>, <<2, 0>>}, bounds : {<<0, 0, 2, 2>>}, travellingSalesmanApprox : BOOLEAN]

\* the worker after a successful loadData of a cluster source
InitOrder ==
    /\ \E doc \in OrderDocuments : geoJSONIndexes = [s \in Sources |-> BuildIndex(TRUE, doc, 1)]
    /\ loaded = [s \in Sources |-> {}]
    /\ inflight = {}
    /\ nextCall = 2
    /\ out = NoCallback
    /\ removed = {}
    /\ tour = NoTour

NextOrder == \E s \in Sources, params \in OrderParams : out = NoCallback /\ Query(s, params)

SpecOrder == InitOrder /\ [][NextOrder]_vars

\* ------------------------------------------------------------------ claims
\* the empty result of getPointListData
EmptyResult == Result(<<>>, EmptyObject)
\* a getPointListData that called back with a result object
PlanAnswered == out.op = "getPointListData" /\ out.called /\ out.value.type = "object"
\* the identifiers of a sequence
Range(q) == {q[k] : k \in DOMAIN q}

\* C1: when params.maxCount is set to k (any k >= 0), the apartmentIds of
\* the result of getPointListData on a cluster source has at most k entries.
C1_MaxCountCapsResult ==
    (PlanAnswered /\ out.params.maxCount # undefined) => Len(out.value.apartmentIds) <= out.params.maxCount

\* C2: getPointListData on a cluster source whose getClusters returns no
\* cluster does not throw and calls back with no error and the empty result,
\* with and without travellingSalesmanApprox.
C2_EmptyQueryCompletes ==
    (/\ out.op = "getPointListData"
     /\ geoJSONIndexes[out.source] # NoIndex
     /\ geoJSONIndexes[out.source].kind = "supercluster"
     /\ geoJSONIndexes[out.source].doc.clusters = <<>>)
    => (~out.threw /\ out.called /\ out.err = Null /\ out.value = EmptyResult)

\* C3: a loadData that calls back with an error (from the loader, for a
\* payload that is no object, or for a build that threw) leaves the registry
\* entry and the loaded markers of every source as they were.
C3_FailedIngestChangesNothing ==
    [][(out'.op = "loadData" /\ out'.called /\ out'.err # Null) => (geoJSONIndexes' = geoJSONIndexes /\ loaded' = loaded)]_vars

\* C3 witness: a build threw while an index with loaded tiles was bound; the
\* index is still bound and its tiles are still marked.
C3_Witness ==
    /\ out.op = "loadData" /\ out.called /\ out.err = BuildError
    /\ geoJSONIndexes[out.source] # NoIndex
    /\ geoJSONIndexes[out.source].call # out.params.call
    /\ loaded[out.source] # {}

\* C4: whenever loadData calls back without an error, whatever the loader
\* delivered, the source is bound to the index built by that call from the
\* delivered document and the source has no loaded marker.
C4_SuccessInstalls ==
    (out.op = "loadData" /\ out.called /\ out.err = Null)
    => (/\ geoJSONIndexes[out.source] = BuildIndex(out.params.cluster, out.params.payload, out.params.call)
        /\ loaded[out.source] = {})

\* C5: from a removeSource until the next index is installed for the source
\* (the interval ends no earlier than the next successful ingest), every
\* tile request that reaches loadGeoJSONTile calls back with (null, null)
\* and every getPointListData with the empty result; none throws or reports
\* an error.
C5_RemovedSourceIsUnknown ==
    (out.source \in removed /\ out.op \in {"loadTile", "reloadTile", "getPointListData"})
    => (/\ out.called /\ ~out.threw /\ out.err = Null
        /\ (out.path = "loadTile" => out.value = Null)
        /\ (out.op = "getPointListData" => out.value = EmptyResult))

\* C5 witness: a query on a source that had tiles marked loaded before it
\* was removed.
C5_Witness ==
    /\ out.op = "getPointListData" /\ out.source \in removed
    /\ loaded[out.source] # {}

\* C6: removeSource and a successful re-ingest both put every tile of the
\* source back to Unloaded: a reloadTile that follows either for the same
\* source takes the fresh path (loadTile), not super.reloadTile.
C6_ResetUnloadsTiles ==
    [][(/\ \/ out.op = "removeSource"
           \/ (out.op = "loadData" /\ out.called /\ out.err = Null /\ ~Falsy(out.params.payload))
        /\ out'.op = "reloadTile"
        /\ out'.source = out.source)
       => out'.path = "loadTile"]_vars

\* C7: for n >= 1 points, duplicates and axis-parallel inputs included,
\* solve() returns a path of length n holding each of 0..n-1 once.
C7_TourIsPermutation ==
    (tour.pc = "returned" /\ tour.ts.length >= 1)
    => (Len(tour.st.path) = tour.ts.length /\ Range(tour.st.path) = 0..(tour.ts.length - 1))

\* C7 witness: a returned tour of at least three points, two of them equal,
\* all with the same x.
C7_Witness ==
    /\ tour.pc = "returned" /\ tour.ts.length >= 3
    /\ tour.points[1] = tour.points[2]
    /\ \A k \in DOMAIN tour.points : tour.points[k][1] = tour.points[1][1]

\* C8: getPointListData calls back with no error and the same empty result
\* object for an unknown source and for a source bound to an index without
\* getClusters.
C8_DegenerateCasesGiveEmptyObject ==
    (out.op = "getPointListData" /\ (geoJSONIndexes[out.source] = NoIndex \/ geoJSONIndexes[out.source].kind # "supercluster"))
    => (out.called /\ ~out.threw /\ out.err = Null /\ out.value = EmptyResult)

\* this call of loadData did not bind the source
InstalledNothing == geoJSONIndexes[out.source] = NoIndex \/ geoJSONIndexes[out.source].call # out.params.call

C10_DistinctIdsAndLookupKeys ==
    PlanAnswered
    => (/\ \A a, b \in DOMAIN out.value.apartmentIds : a # b => out.value.apartmentIds[a] # out.value.apartmentIds[b]
        /\ DOMAIN out.value.clusterLookup = Range(out.value.apartmentIds))

\* C10 witness: a capped, tour-ordered result of three groups, one of them
\* an aggregate.
C10_Witness ==
    /\ PlanAnswered /\ out.params.travellingSalesmanApprox /\ out.params.maxCount # undefined
    /\ Len(geoJSONIndexes[out.source].doc.clusters) >= 3
    /\ \E k \in DOMAIN geoJSONIndexes[out.source].doc.clusters : geoJSONIndexes[out.source].doc.clusters[k].cluster
    /\ Len(out.value.apartmentIds) >= 4

\* the clusters getClusters returned to the query recorded in `out`
QueriedClusters == geoJSONIndexes[out.source].doc.clusters
\* the limit the query handed to getLeaves
QueriedLimit == IF out.params.maxCount = undefined \/ out.params.maxCount = 0 THEN Infinity ELSE out.params.maxCount
\* the id of the group an entry of getClusters stands for
GroupIdOf(c) == IF c.cluster THEN c.cluster_id ELSE c.i
\* the identifiers an entry of getClusters expands to, in expansion order
MembersOf(c) == IF c.cluster THEN [m \in DOMAIN GetLeaves(c, QueriedLimit) |-> GetLeaves(c, QueriedLimit)[m].i] ELSE <<c.i>>
\* q occurs in ids as a run of consecutive entries
OccursContiguously(q, ids) == \E start \in DOMAIN ids : start + Len(q) - 1 <= Len(ids) /\ SubSeq(ids, start, start + Len(q) - 1) = q

\* C11: every identifier of a getPointListData result is looked up to the
\* group it was drawn from (itself for a singleton leaf, the cluster_id for
\* a member of an aggregate), with and without the tour reordering, and the
\* members of one group stand next to each other in expansion order.
C11_LookupNamesGroupOfOrigin ==
    PlanAnswered
    => \A p \in DOMAIN out.value.apartmentIds :
          \E k \in DOMAIN QueriedClusters :
             /\ out.value.apartmentIds[p] \in Range(MembersOf(QueriedClusters[k]))
             /\ out.value.clusterLookup[out.value.apartmentIds[p]] = GroupIdOf(QueriedClusters[k])
             /\ OccursContiguously(MembersOf(QueriedClusters[k]), out.value.apartmentIds)

\* C11 witness: a tour-ordered result that does not start with the first
\* entry of getClusters and holds an aggregate's two members and a
\* singleton.
C11_Witness ==
    /\ PlanAnswered /\ out.params.travellingSalesmanApprox
    /\ Len(out.value.apartmentIds) >= 3
    /\ out.value.apartmentIds[1] # 1
    /\ \E a, b, c \in Range(out.value.apartmentIds) :
          /\ a # b /\ out.value.clusterLookup[a] = out.value.clusterLookup[b]
          /\ out.value.clusterLookup[c] = c

\* params.center if given, the midpoint of params.bounds otherwise
EffectiveCenter == IF out.params.center = <<>> THEN <<(out.params.bounds[1] + out.params.bounds[3]) \div 2, (out.params.bounds[2] + out.params.bounds[4]) \div 2>> ELSE out.params.center
\* the coordinate of the first member of an entry of getClusters
RepresentativeOf(c) == IF c.cluster THEN GetLeaves(c, QueriedLimit)[1].coordinates ELSE c.coordinates
\* the squared planar distance from the effective center to the group
\* with id g
GroupDistance(g) ==
    LET c == CHOOSE c \in Range(QueriedClusters) : GroupIdOf(c) = g
        xy == RepresentativeOf(c)
    IN (EffectiveCenter[1] - xy[1]) * (EffectiveCenter[1] - xy[1]) + (EffectiveCenter[2] - xy[2]) * (EffectiveCenter[2] - xy[2])
\* the group the identifier at position p of the result belongs to
GroupAt(p) == out.value.clusterLookup[out.value.apartmentIds[p]]

\* C12: without travellingSalesmanApprox every two consecutive groups of
\* the result are in non-decreasing order of the squared planar distance
\* between the effective center and the coordinate of the group's first
\* member.
C12_GroupsInDistanceOrder ==
    (PlanAnswered /\ ~out.params.travellingSalesmanApprox)
    => \A p \in DOMAIN out.value.apartmentIds :
          (p < Len(out.value.apartmentIds) /\ GroupAt(p) # GroupAt(p + 1))
          => GroupDistance(GroupAt(p)) <= GroupDistance(GroupAt(p + 1))

\* C12 witness: three groups at three different distances, answered in an
\* order that is not the order of getClusters.
C12_Witness ==
    /\ PlanAnswered /\ ~out.params.travellingSalesmanApprox
    /\ Len(QueriedClusters) = 3
    /\ Cardinality({GroupDistance(GroupIdOf(c)) : c \in Range(QueriedClusters)}) = 3
    /\ Cardinality({GroupAt(p) : p \in DOMAIN out.value.apartmentIds}) = 3
    /\ GroupAt(1) # GroupIdOf(QueriedClusters[1])

\* the smallest distance from the point q to a point of the path; NaN when
\* the distances are NaN
DistanceToTour(q) ==
    LET ds == {Dist(tour.ts.distanceMatrix, tour.st.path[k], q) : k \in DOMAIN tour.st.path}
    IN IF NaN \in ds THEN NaN ELSE CHOOSE d \in ds : \A e \in ds : d <= e
\* the positions of `remaining` (from 0) that hold the not-yet-placed points
Unplaced == tour.st.i .. (tour.ts.length - 1)
\* the position in `remaining` of the point the pass about to end inserts
SelectedPosition == CHOOSE j \in Unplaced : At(tour.st.remaining, j) = At(tour'.st.remaining, tour.st.i)

DetourCost(prev, new, next) ==
    Minus(Plus(Dist(tour.ts.distanceMatrix, prev, new), Dist(tour.ts.distanceMatrix, new, next)), Dist(tour.ts.distanceMatrix, prev, next))
\* the adjacent pairs of a path and its closing edge (last, first)
EdgesOf(path) == {<<path[k], path[k + 1]>> : k \in 1..(Len(path) - 1)} \cup {<<path[Len(path)], path[1]>>}
\* the point the pass about to end inserts, and its position in the new path
Inserted == At(tour'.st.remaining, tour.st.i)
InsertedAt == CHOOSE k \in DOMAIN tour'.st.path : tour'.st.path[k] = Inserted
\* the path elements the inserted point ends up between; after the last
\* element the next one is the first
InsertedBetween == <<tour'.st.path[InsertedAt - 1], IF InsertedAt = Len(tour'.st.path) THEN tour'.st.path[1] ELSE tour'.st.path[InsertedAt + 1]>>

RECURSIVE SolveStatesFrom(_, _)
\* the states [i, remaining, path] solve() passes through from st on
SolveStatesFrom(ts, st) == {st} \cup (IF st.i >= ts.length THEN {} ELSE SolveStatesFrom(ts, SolveIteration(ts, st)))
\* the point arrays getPointListData can hand to the tour for the query
\* recorded in `out`: the coordinates of the collected groups in an order
\* distanceSort can leave them in
QueriedTourPoints ==
    {[k \in DOMAIN sorted |-> sorted[k].coordinates] :
        sorted \in DistanceSort(CollectClusters(QueriedClusters, 1, QueriedLimit, <<>>, 0), EffectiveCenter)}

\* C15: in every state of solve() the path starts with input index 0, and
\* so a result ordered by the tour starts with a group that is nearest to
\* the effective center among the groups of the result.
C15_TourStartsAtNearestGroup ==
    (PlanAnswered /\ out.params.travellingSalesmanApprox /\ out.value.apartmentIds # <<>>)
    => /\ \A pts \in QueriedTourPoints :
             \A st \in SolveStatesFrom(NewTravellingSalesmanApproximation(pts), SolveStart(NewTravellingSalesmanApproximation(pts))) :
                At(st.path, 0) = 0
       /\ \A p \in DOMAIN out.value.apartmentIds : GroupDistance(GroupAt(1)) <= GroupDistance(GroupAt(p))

\* C15 witness: a tour-ordered result of three groups at three distances
\* that is not in distance order, for clusters that getClusters did not
\* return nearest first.
C15_Witness ==
    /\ PlanAnswered /\ out.params.travellingSalesmanApprox
    /\ Cardinality({GroupDistance(GroupAt(p)) : p \in DOMAIN out.value.apartmentIds}) = 3
    /\ \E p \in DOMAIN out.value.apartmentIds : p < Len(out.value.apartmentIds) /\ GroupDistance(GroupAt(p)) > GroupDistance(GroupAt(p + 1))
    /\ GroupAt(1) # GroupIdOf(QueriedClusters[1])

\* C16: when two loadData calls for one source overlap (the fetch of the
\* earlier one is still in flight when the later one is issued) and both
\* succeed, the source ends up bound to the index of the later-issued call
\* in whatever order the fetches answer: an index built by a later-issued
\* call is never replaced by one built by an earlier-issued call.
C16_LaterIssuedCallWins ==
    [][\A s \in Sources :
          (geoJSONIndexes[s] # NoIndex /\ geoJSONIndexes'[s] # NoIndex)
          => geoJSONIndexes'[s].call >= geoJSONIndexes[s].call]_vars

====
